---- MODULE Spec2Model ----
(***************************************************************************)
(* Entitlement-gated chat proxy and payment reconciliation handler of      *)
(* backend/app/main.py: POST /chat, GET /chat_history, POST                *)
(* /stripe-webhook and the streaming client of the external chat API.      *)
(*                                                                         *)
(* The two Supabase tables are the shared state.  Every chat request that  *)
(* passes the checks runs in a slot of its own and is split at each store  *)
(* or network interaction, because the handler holds no lock or            *)
(* transaction across them.                                                *)
(***************************************************************************)
EXTENDS Integers, Sequences, FiniteSets, TLC

\* ---------------------------------------------------------------- bounds
MaxChats == 2      \* chat requests that pass the checks during a run
MaxLines == 3      \* lines of one response stream of the external chat API
MaxRace == 3       \* chat requests of one user that pass the checks in a race

\* ------------------------------------------------------------- constants
QuotaLimit == 50                       \* chat(): user_profile['chat_count'] >= 50

Requests == 1..MaxChats
None == "None"

\* Identities the bearer credential can resolve to; "u3" has no row in
\* user_profiles.
Callers == {"u1", "u2", "u3"}
ProfileUsers == {"u1", "u2"}
\* The callers of /chat and of /chat_history in a run.
ChatCallers == {"u1", "u3"}
Readers == {"u1", "u2"}

\* user_profiles.stripe_customer_id of each row.
stripe_customer_id == [u \in ProfileUsers |-> IF u = "u1" THEN "cus_1" ELSE "cus_2"]

\* Requests of the billing processor and of others to /stripe-webhook.
webhook_secret == "whsec_1"
Keys == {webhook_secret, "whsec_2"}
\* "cus_9" is the customer of no row.
Payloads == {[type |-> "checkout.session.completed", customer |-> "cus_1"],
             [type |-> "checkout.session.completed", customer |-> "cus_9"],
             [type |-> "invoice.paid", customer |-> "cus_1"]}
\* The stripe-signature header computed over a payload with a key.
Sign(key, payload) == [key |-> key, type |-> payload.type, customer |-> payload.customer]
NoSignature == [key |-> None, type |-> "", customer |-> None]
\* The header is absent or signs this payload under either key.
WebhookRequests ==
    {[payload |-> p, sig_header |-> NoSignature] : p \in Payloads} \cup
    {[payload |-> p, sig_header |-> Sign(k, p)] : p \in Payloads, k \in Keys}

\* chat_count values of a paid row at the start of a run.
InitCounts == {0, QuotaLimit - 1, QuotaLimit}

\* ------------------------------------------------------ stream of the API
\* One line of response.iter_lines(): decoded_line = head \o body.
Bodies == {" {\"answer\":\"Hel\"}", " {\"answer\":\"lo\"}", " {\"event\":\"ping\"}",
           " not-json", " 123", " {\"answer\":null}"}
BlankLine == [head |-> "", body |-> ""]
StreamLines == {BlankLine} \cup
               {[head |-> "data:", body |-> b] : b \in Bodies} \cup
               {[head |-> "event:", body |-> " message"]}

\* json.loads on the bodies above: the parsed value, or JSONDecodeError.
\* kind: the Python type of the value; has_answer: 'answer' in data;
\* answer_is_str: data['answer'] is a str; answer: that str.
json_loads(body) ==
    CASE body = " {\"answer\":\"Hel\"}" ->
           [kind |-> "dict", has_answer |-> TRUE, answer_is_str |-> TRUE, answer |-> "Hel"]
      [] body = " {\"answer\":\"lo\"}" ->
           [kind |-> "dict", has_answer |-> TRUE, answer_is_str |-> TRUE, answer |-> "lo"]
      [] body = " {\"event\":\"ping\"}" ->
           [kind |-> "dict", has_answer |-> FALSE, answer_is_str |-> FALSE, answer |-> ""]
      [] body = " {\"answer\":null}" ->
           [kind |-> "dict", has_answer |-> TRUE, answer_is_str |-> FALSE, answer |-> ""]
      [] body = " 123" ->
           [kind |-> "int", has_answer |-> FALSE, answer_is_str |-> FALSE, answer |-> ""]
      [] OTHER ->
           [kind |-> "JSONDecodeError", has_answer |-> FALSE, answer_is_str |-> FALSE, answer |-> ""]

\* One iteration of the for loop of process_streaming_response on the
\* accumulator acc = [full_response, raised].  A JSONDecodeError is caught
\* and logged; `'answer' in data` on an int and `full_response += None`
\* raise TypeError, which the except clause does not catch.
process_line(acc, line) ==
    IF acc.raised # None THEN acc
    ELSE IF line.head \o line.body = "" THEN acc
    ELSE IF line.head # "data:" THEN acc
    ELSE LET data == json_loads(line.body) IN
         IF data.kind = "JSONDecodeError" THEN acc
         ELSE IF data.kind # "dict" THEN [acc EXCEPT !.raised = "TypeError"]
         ELSE IF ~data.has_answer THEN acc
         ELSE IF ~data.answer_is_str THEN [acc EXCEPT !.raised = "TypeError"]
         ELSE [acc EXCEPT !.full_response = acc.full_response \o data.answer]

RECURSIVE iter_lines(_, _)
iter_lines(acc, lines) ==
    IF lines = <<>> THEN acc
    ELSE iter_lines(process_line(acc, Head(lines)), Tail(lines))

\* The end of process_streaming_response: the answer, or HTTPException(500).
stream_result(acc) ==
    IF acc.raised # None
      THEN [done |-> TRUE, ok |-> FALSE, answer |-> "", error |-> acc.raised]
    ELSE IF acc.full_response # ""
      THEN [done |-> TRUE, ok |-> TRUE, answer |-> acc.full_response, error |-> None]
    ELSE [done |-> TRUE, ok |-> FALSE, answer |-> "",
          error |-> "Empty or invalid response from Dify API"]

process_streaming_response(lines) ==
    stream_result(iter_lines([full_response |-> "", raised |-> None], lines))

\* chat_with_dify: requests.post raises RequestException (network error or
\* raise_for_status), turned into HTTPException(500); otherwise the stream
\* is processed.
chat_with_dify(upstream) ==
    IF upstream.failed
      THEN [done |-> TRUE, ok |-> FALSE, answer |-> "", error |-> "Error calling Dify API"]
      ELSE process_streaming_response(upstream.lines)

\* What the external chat API can answer to one request of /chat.
Upstreams ==
    { [failed |-> TRUE, lines |-> <<>>],
      [failed |-> FALSE, lines |-> <<[head |-> "data:", body |-> " {\"answer\":\"Hel\"}"],
                                     [head |-> "data:", body |-> " not-json"],
                                     [head |-> "data:", body |-> " {\"answer\":\"lo\"}"]>>],
      [failed |-> FALSE, lines |-> <<[head |-> "data:", body |-> " {\"event\":\"ping\"}"]>>] }

\* ------------------------------------------------------------------ state
VARIABLES
    user_profiles,     \* table user_profiles: user_id -> [is_paid, chat_count]
    chat_messages,     \* table chat_messages: set of rows
    clock,             \* created_at of the next inserted row
    pc,                \* position of each chat request slot
    caller,            \* current_user.user.id of the request in the slot
    body_user_id,      \* chat_message.user_id of the request in the slot
    chat_count,        \* local chat_count read at the start of chat()
    answer,            \* local answer of chat()
    last,              \* the request answered last and the response to it
    passed,            \* per caller: chat requests that passed the checks
    exchanges,         \* per caller: chat requests answered with the reply
    overlapped,        \* a chat request passed the checks during another one
    stream,            \* process_streaming_response: the lines of the response
    line_no,           \* process_streaming_response: lines read so far
    acc,               \* process_streaming_response: full_response so far
    result             \* process_streaming_response: its outcome

storeVars == <<user_profiles, chat_messages, clock>>
reqVars == <<pc, caller, body_user_id, chat_count, answer>>
countVars == <<passed, exchanges, overlapped>>
streamVars == <<stream, line_no, acc, result>>
vars == <<user_profiles, chat_messages, clock, pc, caller, body_user_id, chat_count,
          answer, last, passed, exchanges, overlapped, stream, line_no, acc, result>>

NoResponse == [status |-> 0, detail |-> ""]

\* A row of user_profiles as the column defaults and the handlers leave it:
\* is_paid is false with chat_count 0 until a payment, and no handler clears
\* is_paid.
Profiles == {[is_paid |-> FALSE, chat_count |-> 0]} \cup
            {[is_paid |-> TRUE, chat_count |-> c] : c \in InitCounts}

StoreInit ==
    /\ user_profiles \in [ProfileUsers -> Profiles]
    /\ user_profiles["u2"] = [is_paid |-> FALSE, chat_count |-> 0]
    /\ chat_messages = {}
    /\ clock = 1
    /\ pc = [r \in Requests |-> "idle"]
    /\ caller = [r \in Requests |-> None]
    /\ body_user_id = [r \in Requests |-> None]
    /\ chat_count = [r \in Requests |-> 0]
    /\ answer = [r \in Requests |-> ""]
    /\ last = [op |-> "none"]
    /\ passed = [c \in Callers |-> 0]
    /\ exchanges = [c \in Callers |-> 0]
    /\ overlapped = FALSE

Pending == [done |-> FALSE, ok |-> FALSE, answer |-> "", error |-> None]

StreamIdle ==
    /\ stream = <<>>
    /\ line_no = 0
    /\ acc = [full_response |-> "", raised |-> None]
    /\ result = Pending

Init == StoreInit /\ StreamIdle

\* ------------------------------------------------------------- POST /chat
\* supabase...select('*').eq('user_id', id).single().execute().data: the
\* rows that match, none or one.
select_profile(profiles, id) ==
    {profiles[u] : u \in {v \in DOMAIN profiles : v = id}}

\* `except Exception as e` of chat(): HTTPException is an Exception, so a
\* raise inside the try block leaves the handler as a 500.
chat_except(raised) ==
    [status |-> 500, detail |-> "Internal server error: " \o raised]

\* chat_checks without the payment check of line 227.
chat_checks_unpaid_passes(rows) ==
    IF rows = {}
      THEN chat_except("User not found")
    ELSE LET user_profile == CHOOSE row \in rows : TRUE IN
         IF user_profile.chat_count >= QuotaLimit
           THEN [status |-> 402, detail |-> "Chat limit reached. Please purchase more credits."]
         ELSE NoResponse

\* chat_checks with the quota check of line 231 as `> 50`.
chat_checks_quota_off_by_one(rows) ==
    IF rows = {}
      THEN chat_except("User not found")
    ELSE LET user_profile == CHOOSE row \in rows : TRUE IN
         IF ~user_profile.is_paid
           THEN chat_except("Please purchase access to start chatting.")
         ELSE IF user_profile.chat_count > QuotaLimit
           THEN [status |-> 402, detail |-> "Chat limit reached. Please purchase more credits."]
         ELSE NoResponse

\* Lines 221-232: the checks on the loaded profile.  The outcome is the
\* response that ends the request, or NoResponse to go on.  Without a row,
\* either user_profile.get (line 222) or the raise of line 225 raises.
chat_checks(rows) ==
    IF rows = {}
      THEN chat_except("User not found")
    ELSE LET user_profile == CHOOSE row \in rows : TRUE IN
         IF ~user_profile.is_paid
           THEN chat_except("Please purchase access to start chatting.")
         ELSE IF user_profile.chat_count >= QuotaLimit
           THEN [status |-> 402, detail |-> "Chat limit reached. Please purchase more credits."]
         ELSE NoResponse

\* The request of slot r ends with response resp; a request that did not
\* pass the checks leaves the slot free.
EndRequest(r, resp) ==
    /\ last' = [op |-> "chat", status |-> resp.status, detail |-> resp.detail]
    /\ pc' = [pc EXCEPT ![r] = IF pc[r] = "idle" THEN "idle" ELSE "done"]
    /\ caller' = [caller EXCEPT ![r] = None]
    /\ body_user_id' = [body_user_id EXCEPT ![r] = None]
    /\ chat_count' = [chat_count EXCEPT ![r] = 0]
    /\ answer' = [answer EXCEPT ![r] = ""]

ChatBegin(r, c, b) ==
    /\ pc[r] = "idle"
    /\ \A q \in Requests : q < r => pc[q] # "idle"
    /\ LET rows == select_profile(user_profiles, c)
           outcome == chat_checks(rows)
       IN IF outcome = NoResponse
            THEN /\ caller' = [caller EXCEPT ![r] = c]
                 /\ body_user_id' = [body_user_id EXCEPT ![r] = b]
                 /\ chat_count' = [chat_count EXCEPT ![r] =
                                      (CHOOSE row \in rows : TRUE).chat_count]
                 /\ pc' = [pc EXCEPT ![r] = "insert_user"]
                 /\ passed' = [passed EXCEPT ![c] = @ + 1]
                 /\ overlapped' = (overlapped \/
                                      \E q \in Requests : pc[q] \notin {"idle", "done"})
                 /\ UNCHANGED <<answer, last>>
            ELSE EndRequest(r, outcome) /\ UNCHANGED <<passed, overlapped>>
    /\ UNCHANGED <<storeVars, exchanges, streamVars>>

\* supabase.table('chat_messages').insert({...}).execute(); created_at is
\* assigned by the store.
insert_message(rows, uid, role, content, now) ==
    rows \cup {[user_id |-> uid, role |-> role, content |-> content, created_at |-> now]}

\* Lines 236-241.
ChatInsertUser(r) ==
    /\ pc[r] = "insert_user"
    /\ chat_messages' = insert_message(chat_messages, body_user_id[r], "user", "hi", clock)
    /\ clock' = clock + 1
    /\ pc' = [pc EXCEPT ![r] = "call_dify"]
    /\ UNCHANGED <<user_profiles, caller, body_user_id, chat_count, answer, last,
                   countVars, streamVars>>

\* ChatCallDify with a compensating rollback: a failed call deletes the
\* user message of the request.
ChatCallDify_rollback(r, upstream) ==
    /\ pc[r] = "call_dify"
    /\ LET dify_response == chat_with_dify(upstream)
       IN IF dify_response.ok
            THEN /\ answer' = [answer EXCEPT ![r] = dify_response.answer]
                 /\ pc' = [pc EXCEPT ![r] = "insert_assistant"]
                 /\ UNCHANGED <<caller, body_user_id, chat_count, last, chat_messages>>
            ELSE /\ EndRequest(r, chat_except(dify_response.error))
                 /\ chat_messages' = {m \in chat_messages :
                                         m.user_id # body_user_id[r] \/ m.role # "user"}
    /\ UNCHANGED <<user_profiles, clock, countVars, streamVars>>

\* Lines 243-249.
ChatCallDify(r, upstream) ==
    /\ pc[r] = "call_dify"
    /\ LET dify_response == chat_with_dify(upstream)
       IN IF dify_response.ok
            THEN /\ answer' = [answer EXCEPT ![r] = dify_response.answer]
                 /\ pc' = [pc EXCEPT ![r] = "insert_assistant"]
                 /\ UNCHANGED <<caller, body_user_id, chat_count, last>>
            ELSE EndRequest(r, chat_except(dify_response.error))
    /\ UNCHANGED <<storeVars, countVars, streamVars>>

\* Lines 253-258.
ChatInsertAssistant(r) ==
    /\ pc[r] = "insert_assistant"
    /\ chat_messages' = insert_message(chat_messages, body_user_id[r], "assistant",
                                       answer[r], clock)
    /\ clock' = clock + 1
    /\ pc' = [pc EXCEPT ![r] = "update_count"]
    /\ UNCHANGED <<user_profiles, caller, body_user_id, chat_count, answer, last,
                   countVars, streamVars>>

\* supabase.table('user_profiles').update(values).eq('user_id', id).execute():
\* the table after the update.
update_profile(profiles, id, values) ==
    [u \in DOMAIN profiles |->
        IF u = id
          THEN [is_paid |-> IF "is_paid" \in DOMAIN values
                              THEN values.is_paid ELSE profiles[u].is_paid,
                chat_count |-> IF "chat_count" \in DOMAIN values
                                 THEN values.chat_count ELSE profiles[u].chat_count]
          ELSE profiles[u]]

\* Lines 260-265.
ChatUpdateCount(r) ==
    /\ pc[r] = "update_count"
    /\ LET new_chat_count == chat_count[r] + 1
       IN user_profiles' = update_profile(user_profiles, caller[r],
                                          [chat_count |-> new_chat_count])
    /\ EndRequest(r, [status |-> 200, detail |-> answer[r]])
    /\ exchanges' = [exchanges EXCEPT ![caller[r]] = @ + 1]
    /\ UNCHANGED <<chat_messages, clock, passed, overlapped, streamVars>>

\* ------------------------------------------------------ GET /chat_history
\* .order('created_at') on a set of rows.
RECURSIVE order_by_created_at(_)
order_by_created_at(rows) ==
    IF rows = {} THEN <<>>
    ELSE LET first == CHOOSE m \in rows : \A n \in rows : m.created_at <= n.created_at
         IN <<first>> \o order_by_created_at(rows \ {first})

\* Line 275: select('*').eq('user_id', user_id).order('created_at').
get_chat_history(rows, user_id) ==
    order_by_created_at({m \in rows : m.user_id = user_id})

GetChatHistory(c) ==
    /\ last' = [op |-> "get_chat_history", caller |-> c, status |-> 200,
                chat_history |-> get_chat_history(chat_messages, c)]
    /\ UNCHANGED <<storeVars, reqVars, countVars, streamVars>>

\* -------------------------------------------------- POST /stripe-webhook
\* construct_event that checks the signed payload but not the key.
construct_event_any_key(payload, sig_header, secret) ==
    IF sig_header.key # None /\ sig_header.type = payload.type
                             /\ sig_header.customer = payload.customer
      THEN [ok |-> TRUE, type |-> payload.type, customer |-> payload.customer]
      ELSE [ok |-> FALSE, type |-> "", customer |-> None]

\* stripe.Webhook.construct_event(payload, sig_header, webhook_secret): the
\* header must be the signature of this payload under the secret.
construct_event(payload, sig_header, secret) ==
    IF sig_header = Sign(secret, payload)
      THEN [ok |-> TRUE, type |-> payload.type, customer |-> payload.customer]
      ELSE [ok |-> FALSE, type |-> "", customer |-> None]

\* The lookup of line 298 without its filter.
select_by_customer_any(customer_id) == ProfileUsers

\* Line 298: select('*').eq('stripe_customer_id', customer_id).single(): the
\* user_ids of the rows that match.  A NULL column matches nothing.
select_by_customer(customer_id) ==
    {u \in ProfileUsers : stripe_customer_id[u] # None /\ stripe_customer_id[u] = customer_id}

\* handle_event whose update of lines 303-306 leaves chat_count alone.
handle_event_no_reset(profiles, event) ==
    IF event.type = "checkout.session.completed"
      THEN LET user == select_by_customer(event.customer) IN
           IF user # {}
             THEN [profiles |-> update_profile(profiles, CHOOSE u \in user : TRUE,
                                               [is_paid |-> TRUE]),
                   status |-> 200, message |-> "Payment status updated"]
             ELSE [profiles |-> profiles, status |-> 404, message |-> "User not found"]
      ELSE [profiles |-> profiles, status |-> 200, message |-> "Event processed"]

\* handle_event that resets chat_count only for a row that is not paid yet.
handle_event_reset_if_unpaid(profiles, event) ==
    IF event.type = "checkout.session.completed"
      THEN LET user == select_by_customer(event.customer) IN
           IF user # {}
             THEN [profiles |-> IF profiles[CHOOSE u \in user : TRUE].is_paid
                                  THEN profiles
                                  ELSE update_profile(profiles, CHOOSE u \in user : TRUE,
                                                      [is_paid |-> TRUE, chat_count |-> 0]),
                   status |-> 200, message |-> "Payment status updated"]
             ELSE [profiles |-> profiles, status |-> 404, message |-> "User not found"]
      ELSE [profiles |-> profiles, status |-> 200, message |-> "Event processed"]

\* handle_event without the test of the event type of line 292.
handle_event_any_type(profiles, event) ==
    LET user == select_by_customer(event.customer) IN
    IF user # {}
      THEN [profiles |-> update_profile(profiles, CHOOSE u \in user : TRUE,
                                        [is_paid |-> TRUE, chat_count |-> 0]),
            status |-> 200, message |-> "Payment status updated"]
      ELSE [profiles |-> profiles, status |-> 404, message |-> "User not found"]

\* Lines 292-321, after the signature check: the new table and the response.
handle_event(profiles, event) ==
    IF event.type = "checkout.session.completed"
      THEN LET user == select_by_customer(event.customer) IN
           IF user # {}
             THEN [profiles |-> update_profile(profiles, CHOOSE u \in user : TRUE,
                                               [is_paid |-> TRUE, chat_count |-> 0]),
                   status |-> 200, message |-> "Payment status updated"]
             ELSE [profiles |-> profiles, status |-> 404, message |-> "User not found"]
      ELSE [profiles |-> profiles, status |-> 200, message |-> "Event processed"]

StripeWebhook(req) ==
    /\ LET event == construct_event(req.payload, req.sig_header, webhook_secret)
           out == IF event.ok THEN handle_event(user_profiles, event)
                  ELSE [profiles |-> user_profiles, status |-> 400,
                        message |-> "signature verification failed"]
       IN /\ user_profiles' = out.profiles
          /\ last' = [op |-> "stripe_webhook", event |-> event,
                      redelivery |-> (event.ok /\ last.op = "stripe_webhook"
                                               /\ last.event = event),
                      status |-> out.status, message |-> out.message]
    /\ UNCHANGED <<chat_messages, clock, reqVars, countVars, streamVars>>

Next ==
    \/ \E r \in Requests, c \in ChatCallers, b \in ProfileUsers : ChatBegin(r, c, b)
    \/ \E r \in Requests : ChatInsertUser(r)
    \/ \E r \in Requests, upstream \in Upstreams : ChatCallDify(r, upstream)
    \/ \E r \in Requests : ChatInsertAssistant(r)
    \/ \E r \in Requests : ChatUpdateCount(r)
    \/ \E c \in Readers : GetChatHistory(c)
    \/ \E req \in WebhookRequests : StripeWebhook(req)

Spec == Init /\ [][Next]_vars

\* ------------------------------- process_streaming_response, line by line
RECURSIVE SeqsUpTo(_, _)
SeqsUpTo(S, n) ==
    IF n = 0 THEN {<<>>}
    ELSE LET shorter == SeqsUpTo(S, n - 1)
         IN shorter \cup {Append(q, x) : q \in shorter, x \in S}

StoreIdle ==
    /\ StoreInit
    /\ user_profiles["u1"] = [is_paid |-> FALSE, chat_count |-> 0]

StreamInit ==
    /\ StoreIdle
    /\ stream \in SeqsUpTo(StreamLines, MaxLines)
    /\ line_no = 0
    /\ acc = [full_response |-> "", raised |-> None]
    /\ result = Pending

\* One iteration of `for line in response.iter_lines()`; an exception that
\* the loop does not catch ends the call.
ReadLine ==
    /\ ~result.done
    /\ line_no < Len(stream)
    /\ LET next == process_line(acc, stream[line_no + 1])
       IN /\ acc' = next
          /\ result' = IF next.raised # None THEN stream_result(next) ELSE result
    /\ line_no' = line_no + 1
    /\ UNCHANGED <<storeVars, reqVars, last, countVars, stream>>

\* Lines 210-215, after the loop.
EndOfStream ==
    /\ ~result.done
    /\ line_no = Len(stream)
    /\ result' = stream_result(acc)
    /\ UNCHANGED <<storeVars, reqVars, last, countVars, stream, line_no, acc>>

StreamNext == ReadLine \/ EndOfStream

SpecStream == StreamInit /\ [][StreamNext]_vars

\* ------------------------------------ chat requests of one user in a race
\* The requests of u1 between two completed payment events.  The run starts
\* after the payment and QuotaLimit - 1 exchanges handled one after another,
\* which leave chat_count at QuotaLimit - 1; no payment event arrives in it.
RaceRequests == 1..MaxRace

RaceInit ==
    /\ user_profiles = [u \in ProfileUsers |->
                           IF u = "u1" THEN [is_paid |-> TRUE, chat_count |-> QuotaLimit - 1]
                                       ELSE [is_paid |-> FALSE, chat_count |-> 0]]
    /\ chat_messages = {}
    /\ clock = 1
    /\ pc = [r \in RaceRequests |-> "idle"]
    /\ caller = [r \in RaceRequests |-> None]
    /\ body_user_id = [r \in RaceRequests |-> None]
    /\ chat_count = [r \in RaceRequests |-> 0]
    /\ answer = [r \in RaceRequests |-> ""]
    /\ last = [op |-> "none"]
    /\ passed = [c \in Callers |-> 0]
    /\ exchanges = [c \in Callers |-> 0]
    /\ overlapped = FALSE
    /\ StreamIdle

RaceNext ==
    \/ \E r \in RaceRequests : ChatBegin(r, "u1", "u1")
    \/ \E r \in RaceRequests : ChatInsertUser(r)
    \/ \E r \in RaceRequests, upstream \in Upstreams : ChatCallDify(r, upstream)
    \/ \E r \in RaceRequests : ChatInsertAssistant(r)
    \/ \E r \in RaceRequests : ChatUpdateCount(r)

SpecRace == RaceInit /\ [][RaceNext]_vars

TypeOK ==
    /\ \A u \in ProfileUsers : user_profiles[u].chat_count \in Nat
    /\ clock \in 1..(2 * MaxChats + 1)
    /\ line_no \in 0..Len(stream)

\* ------------------------------------------------------------- properties
Paid == [is_paid |-> TRUE, chat_count |-> 0]
Checkout == "checkout.session.completed"

\* The signature header of the request is the one the billing processor
\* computes for this payload.
Verified(req) == req.sig_header = Sign(webhook_secret, req.payload)

\* The webhook handler answers request req in this step.
Delivered(req) ==
    last'.op = "stripe_webhook" /\ StripeWebhook(req)

\* The rows whose stripe_customer_id is the customer of the request.
CustomerRows(req) == {u \in ProfileUsers : stripe_customer_id[u] = req.payload.customer}

\* C1: a chat request that loads a profile with is_paid = false ends at once:
\* the external chat client is not called (the request leaves its slot) and
\* neither table is written, so chat_count is what it was.
C1_UnpaidNeverCallsClient ==
    [][\A r \in Requests, c \in ProfileUsers, b \in ProfileUsers :
          (~user_profiles[c].is_paid /\ ChatBegin(r, c, b))
            => /\ pc'[r] = "idle"
               /\ user_profiles' = user_profiles
               /\ chat_messages' = chat_messages]_vars

C1_Witness ==
    /\ last.op = "chat"
    /\ last.detail = "Internal server error: Please purchase access to start chatting."
    /\ ~user_profiles["u1"].is_paid
    /\ user_profiles["u1"].chat_count = 0
    /\ chat_messages = {}

\* C2: a chat request that loads a profile with chat_count >= 50 is answered
\* 402 "Chat limit reached" before the external chat client is called: no
\* message is appended and chat_count is not written.
C2_QuotaExceededBeforeClient ==
    [][\A r \in Requests, c \in ProfileUsers, b \in ProfileUsers :
          (user_profiles[c].chat_count >= QuotaLimit /\ ChatBegin(r, c, b))
            => /\ last'.op = "chat"
               /\ last'.status = 402
               /\ last'.detail = "Chat limit reached. Please purchase more credits."
               /\ pc'[r] = "idle"
               /\ user_profiles' = user_profiles
               /\ chat_messages' = chat_messages]_vars

C2_Witness ==
    /\ last.op = "chat"
    /\ last.status = 402
    /\ user_profiles["u1"].chat_count >= QuotaLimit
    /\ chat_messages = {}

\* C3: a chat request of a caller whose profile has is_paid = false is
\* answered 402, and one of a caller without a profile is answered 404.
C3_RejectionStatus ==
    [][\A r \in Requests, c \in ChatCallers, b \in ProfileUsers :
          ChatBegin(r, c, b)
            => /\ (c \notin ProfileUsers => last'.status = 404)
               /\ (c \in ProfileUsers /\ ~user_profiles[c].is_paid
                     => last'.status = 402)]_vars

\* C4: a verified checkout-completed event for a known customer leaves the
\* row as is_paid = true, chat_count = 0 and is answered with success; the
\* same event delivered again right after leaves the table as the first
\* delivery left it and is answered with success again.
C4_MarkPaidIdempotent ==
    [][\A req \in WebhookRequests : \A u \in CustomerRows(req) :
          (Verified(req) /\ req.payload.type = Checkout /\ Delivered(req))
            => /\ user_profiles'[u] = Paid
               /\ last'.status = 200
               /\ last'.message = "Payment status updated"
               /\ last'.redelivery => user_profiles' = user_profiles]_vars

C4_Witness ==
    /\ last.op = "stripe_webhook"
    /\ last.redelivery
    /\ last.status = 200
    /\ last.message = "Payment status updated"
    /\ user_profiles["u1"] = Paid

C6_InvalidSignature ==
    [][\A req \in WebhookRequests :
          (~Verified(req) /\ Delivered(req))
            => /\ last'.status = 400
               /\ user_profiles' = user_profiles
               /\ chat_messages' = chat_messages]_vars

C6_Witness ==
    /\ last.op = "stripe_webhook"
    /\ last.status = 400
    /\ ~last.event.ok
    /\ ~user_profiles["u1"].is_paid

\* C7: a transcript read by a user, made while no chat request is in
\* progress and after N chat requests of that user that passed the checks,
\* handled one after another and all answered with the reply, holds exactly
\* 2N messages, in chronological order, alternating user/assistant from a
\* user message.
C7_TranscriptRoundTrip ==
    [][\A c \in Readers :
          (passed[c] = exchanges[c] /\ ~overlapped
                                    /\ (\A r \in Requests : pc[r] \in {"idle", "done"})
                                    /\ GetChatHistory(c))
            => LET h == last'.chat_history IN
               /\ Len(h) = 2 * exchanges[c]
               /\ \A i \in 1..Len(h) :
                     h[i].role = IF i % 2 = 1 THEN "user" ELSE "assistant"
               /\ \A i \in 1..Len(h) : \A j \in 1..Len(h) :
                     i < j => h[i].created_at < h[j].created_at]_vars

\* A completed payment event for the row of u is handled in this step.
CompletedPayment(u) ==
    \E req \in WebhookRequests :
        /\ Verified(req)
        /\ req.payload.type = Checkout
        /\ u \in CustomerRows(req)
        /\ Delivered(req)

\* C8 as stated: is_paid turning true sets chat_count to 0, and chat_count
\* is lowered by no step other than such a transition.
C8_ResetOnlyOnTransition ==
    [][\A u \in ProfileUsers :
          /\ (~user_profiles[u].is_paid /\ user_profiles'[u].is_paid)
               => user_profiles'[u].chat_count = 0
          /\ user_profiles'[u].chat_count < user_profiles[u].chat_count
               => (~user_profiles[u].is_paid /\ user_profiles'[u].is_paid)]_vars

\* C8 as amended: every completed payment event for a row sets chat_count to
\* 0, also when the row is already paid; is_paid turns true only through
\* such an event, and then chat_count is 0; no other step sets chat_count
\* to 0.
C8_ResetByPaymentEvent ==
    [][\A u \in ProfileUsers :
          /\ (~user_profiles[u].is_paid /\ user_profiles'[u].is_paid)
               => (user_profiles'[u].chat_count = 0 /\ CompletedPayment(u))
          /\ (user_profiles'[u].chat_count = 0 /\ user_profiles[u].chat_count # 0)
               => CompletedPayment(u)
          /\ CompletedPayment(u) => user_profiles'[u] = Paid]_vars

C8_Witness ==
    /\ last.op = "stripe_webhook"
    /\ last.message = "Payment status updated"
    /\ exchanges["u1"] > 0
    /\ user_profiles["u1"] = Paid

\* The answer fragments of the data lines of a stream that parse, in order.
RECURSIVE answer_fragments(_)
answer_fragments(lines) ==
    IF lines = <<>> THEN ""
    ELSE LET line == Head(lines)
             data == json_loads(line.body)
         IN (IF line.head = "data:" /\ data.kind # "JSONDecodeError"
                                    /\ data.has_answer /\ data.answer_is_str
               THEN data.answer ELSE "") \o answer_fragments(Tail(lines))

\* C9: the call succeeds exactly when the concatenation of the answer
\* fragments of the data lines that parse is not empty, and its result is
\* then that concatenation; no line makes it fail otherwise.  (Any failure
\* is taken for the empty-response failure here.)
C9_StreamReconstruction ==
    result.done =>
        /\ result.ok <=> answer_fragments(stream) # ""
        /\ result.ok => result.answer = answer_fragments(stream)

\* C10: a verified event of another type than checkout completed is
\* answered with success and changes no row.
C10_OtherEventsNoOp ==
    [][\A req \in WebhookRequests :
          (Verified(req) /\ req.payload.type # Checkout /\ Delivered(req))
            => /\ last'.status = 200
               /\ last'.message = "Event processed"
               /\ user_profiles' = user_profiles
               /\ chat_messages' = chat_messages]_vars

C10_Witness ==
    /\ last.op = "stripe_webhook"
    /\ last.status = 200
    /\ last.message = "Event processed"
    /\ last.event.type = "invoice.paid"
    /\ last.event.customer = "cus_1"
    /\ ~user_profiles["u1"].is_paid

\* C11: when the call of the external chat client fails (the request to the
\* API fails, or the stream carries no answer) in a chat request that passed
\* the checks, the request ends in that step and is answered 500: the user
\* message it inserted is still in chat_messages, no row is
\* inserted, chat_count is not written, and the request takes no further
\* step (a request that has ended stays ended, and no message is ever
\* deleted).
C11_UpstreamFailureAborts ==
    [][/\ \A r \in Requests, upstream \in Upstreams :
            (pc[r] = "call_dify" /\ ~chat_with_dify(upstream).ok
                                 /\ ChatCallDify(r, upstream))
              => /\ last'.op = "chat"
                 /\ last'.status = 500
                 /\ pc'[r] = "done"
                 /\ chat_messages' = chat_messages
                 /\ \E m \in chat_messages' :
                       m.user_id = body_user_id[r] /\ m.role = "user"
                 /\ user_profiles' = user_profiles
       /\ \A r \in Requests : pc[r] = "done" => pc'[r] = "done"
       /\ chat_messages \subseteq chat_messages']_vars

C11_Witness ==
    /\ last.op = "chat"
    /\ last.status = 500
    /\ last.detail = "Internal server error: Empty or invalid response from Dify API"
    /\ pc[1] = "done"
    /\ \E m \in chat_messages : m.role = "user"
    /\ \A m \in chat_messages : m.role # "assistant"
    /\ user_profiles["u1"] = [is_paid |-> TRUE, chat_count |-> QuotaLimit - 1]

\* The successful exchanges of u1 since the last completed payment event, in
\* a run of SpecRace: those before the run and those of the run.
SuccessfulExchanges == (QuotaLimit - 1) + exchanges["u1"]

\* C12: chat requests of one paid user that interleave exceed the quota by
\* at most one: between two completed payment events the user completes at
\* most QuotaLimit + 1 successful exchanges.
C12_QuotaExceededByAtMostOne ==
    SuccessfulExchanges <= QuotaLimit + 1

\* C13: every row a chat request inserts (user and assistant message) has
\* the user_id of the authenticated caller of the request, whatever user_id
\* the request body carries, and the transcript get_chat_history returns to
\* any other user is what it was before the insert.
C13_AppendsOnlyToCaller ==
    [][\A r \in Requests :
          (pc[r] \in {"insert_user", "insert_assistant"}
             /\ (ChatInsertUser(r) \/ ChatInsertAssistant(r)))
            => /\ \A m \in chat_messages' \ chat_messages : m.user_id = caller[r]
               /\ \A b \in Callers \ {caller[r]} :
                     get_chat_history(chat_messages', b) = get_chat_history(chat_messages, b)]_vars
====
